---- MODULE Spec2Model ----
(***************************************************************************)
(* A model of octant.core.TrackRun (src/octant/core.py) and of the density *)
(* helpers of src/octant/misc.py.                                          *)
(*                                                                         *)
(* A TrackRun is modelled by the fields its methods read and write:        *)
(*   data             the records of the OctantTrack frame, in frame       *)
(*                    order; a record carries the two index levels         *)
(*                    (tid = track_idx, row = row_idx), its time, its      *)
(*                    position x, and a ghost tag orig naming the track    *)
(*                    the record was loaded as                             *)
(*   cats             the category frame: its column labels and its rows   *)
(*                    (index value tid, one flag per column); the field    *)
(*                    none is TRUE when the attribute is None              *)
(*   is_categorised, is_cat_inclusive, tstep_h                             *)
(*                                                                         *)
(* pandas is modelled by what the calls used here do: concat appends,      *)
(* ne(shift).cumsum() - 1 numbers the runs of equal ids, a boolean Series  *)
(* mask is aligned on its index, .loc with a list of level-0 labels        *)
(* returns the records of each listed label, groupby iterates the groups   *)
(* in ascending key order.  A missing flag (NaN) is modelled as FALSE,     *)
(* which is what fillna(False) and the logical operators make of it.       *)
(***************************************************************************)
EXTENDS Integers, Sequences, FiniteSets, TLC

\* ------------------------------------------------------------------ bounds
MaxTracks == 2
MaxRecs == 2
MaxOps == 2
MaxData == 4
MaxCall == 2
MaxDist == 3

\* ------------------------------------------------------------- vocabulary
\* tstep_h is a positive number of hours; 0 stands for a missing or None
\* attribute.  A time bound of time_slice is a time; -1 stands for None.
NoStep == 0

NoTime == -1

BaseLabels == {"A", "B"}

\* A category label is the list of the base labels it was built from:
\* classify joins them with "|" when the categories are inclusive.
Lab(s) == <<s>>

AllStr == Lab("all")

UnknownLabel == Lab("Z")

SubNone == [kind |-> "none", s |-> <<>>, l |-> <<>>]

SubStr(lab) == [kind |-> "str", s |-> lab, l |-> <<>>]

SubList(labs) == [kind |-> "list", s |-> <<>>, l |-> labs]

\* ---------------------------------------------------------- sequence help
RECURSIVE Unique(_)
Unique(s) ==
    IF s = <<>> THEN <<>>
    ELSE <<Head(s)>> \o SelectSeq(Unique(Tail(s)), LAMBDA v : v # Head(s))

RECURSIVE SortedSeq(_)
SortedSeq(S) ==
    IF S = {} THEN <<>>
    ELSE LET m == CHOOSE v \in S : \A w \in S : v <= w
         IN  <<m>> \o SortedSeq(S \ {m})

RECURSIVE Flatten(_)
Flatten(ss) ==
    IF ss = <<>> THEN <<>> ELSE Head(ss) \o Flatten(Tail(ss))

Range(s) == {s[i] : i \in DOMAIN s}

Level0(data) == [i \in 1..Len(data) |-> data[i].tid]

\* ------------------------------------------------------------- the object
NoCats == [none |-> TRUE, cols |-> <<>>, rows |-> <<>>]

\* TrackRun.__init__ with dirname=None: empty data, no categories.
EmptyRun ==
    [data |-> <<>>, cats |-> NoCats, is_categorised |-> FALSE,
     is_cat_inclusive |-> FALSE, tstep_h |-> NoStep]

\* TrackRun.__len__: the number of distinct level-0 values of the data.
TrackRunLen(tr) == Cardinality(Range(Level0(tr.data)))

\* TrackRun.cat_labels: the category columns, [] when cats is None.
CatLabels(tr) == IF tr.cats.none THEN <<>> ELSE tr.cats.cols

\* OctantTrack.gb: the groups of the frame, by ascending track id.
GroupKeys(data) == SortedSeq(Range(Level0(data)))

Group(data, id) == SelectSeq(data, LAMBDA r : r.tid = id)

\* data.loc[idx, :] for a list idx of level-0 labels: the records of each
\* listed label, label by label; a label with no record contributes none.
Loc(data, idx) == Flatten([k \in 1..Len(idx) |-> Group(data, idx[k])])

Ok(v) == [kind |-> "ok", val |-> v, err |-> "none"]

Raise(e) == [kind |-> "error", val |-> <<>>, err |-> e]

\* The first label of the list that is not a column, or 0.
FirstUnknown(labs, cols) ==
    IF \A k \in 1..Len(labs) : labs[k] \in Range(cols) THEN 0
    ELSE CHOOSE k \in 1..Len(labs) :
            /\ labs[k] \notin Range(cols)
            /\ \A j \in 1..(k - 1) : labs[j] \in Range(cols)

\* The index of the rows of cats whose flag is set for every listed label.
SelectedIdx(cats, labs) ==
    LET hit == SelectSeq(cats.rows,
                   LAMBDA row : \A k \in 1..Len(labs) : row.flags[labs[k]])
    IN  [k \in 1..Len(hit) |-> hit[k].tid]

\* self.data.loc[idx, :] depends on the pandas build where idx holds a
\* label twice or a label no record carries.  The label-by-label lookup
\* ("strict") returns the records of a repeated label once per repeat and
\* raises KeyError for a label without record; the lookup by reindexing
\* ("reindex") leaves out a label without record and cannot reindex by
\* repeated labels.  Elsewhere the builds agree.
PandasBuilds == {"strict", "reindex"}

HasRepeat(idx) == \E j, k \in 1..Len(idx) : j # k /\ idx[j] = idx[k]

LocIn(build, data, idx) ==
    IF build = "reindex" /\ HasRepeat(idx) THEN Raise("NotImplementedError")
    ELSE IF build = "strict" /\ ~(Range(idx) \subseteq Range(Level0(data)))
    THEN Raise("KeyError")
    ELSE Ok(Loc(data, idx))

\* TrackRun.__getitem__ under one build.
GetItemIn(build, tr, subset) ==
    IF subset.kind = "none" \/ (subset.kind = "str" /\ subset.s = AllStr)
          \/ TrackRunLen(tr) = 0
    THEN Ok(tr.data)
    ELSE IF tr.is_categorised
    THEN IF FirstUnknown(IF subset.kind = "str" THEN <<subset.s>> ELSE subset.l,
                         CatLabels(tr)) # 0
         THEN Raise("SelectError")
         ELSE LocIn(build, tr.data,
                    SelectedIdx(tr.cats, IF subset.kind = "str" THEN <<subset.s>>
                                         ELSE subset.l))
    ELSE Raise("NotCategorisedError")

\* TrackRun.__getitem__ where the category index holds every track of the
\* data once, as it does after classify on loaded data.
GetItem(tr, subset) == GetItemIn("strict", tr, subset)

\* TrackRun.size with subset=None: the number of tracks of self[None].
Size(tr) == Cardinality(Range(Level0(GetItem(tr, SubNone).val)))

\* A variant of the renumbering that keeps the ids as they are; C9 tells
\* it from ReIndex.
KeepIds(ids) == ids

\* new_track_idx.ne(new_track_idx.shift()).cumsum() - 1: a record gets the
\* number of the run of equal ids it lies in, counted from 0.
ReIndex(ids) ==
    [i \in 1..Len(ids) |->
        Cardinality({p \in 1..i : p = 1 \/ ids[p] # ids[p - 1]}) - 1]

\* set_index: the same records under new level-0 values.
SetTrackIdx(data, ids) ==
    [i \in 1..Len(data) |-> [data[i] EXCEPT !.tid = ids[i]]]

\* pd.concat([self.cats, other.cats], sort=False).fillna(False), then the
\* rows renumbered like the data.  concat drops an operand that is None.
ConcatCats(c1, c2) ==
    LET cols == Unique(c1.cols \o c2.cols)
        widen(row) ==
            [tid |-> row.tid,
             flags |-> [c \in Range(cols) |->
                          IF c \in DOMAIN row.flags THEN row.flags[c] ELSE FALSE]]
        rows == [k \in 1..Len(c1.rows) |-> widen(c1.rows[k])]
                  \o [k \in 1..Len(c2.rows) |-> widen(c2.rows[k])]
        ids == ReIndex([k \in 1..Len(rows) |-> rows[k].tid])
    IN  [none |-> FALSE, cols |-> cols,
         rows |-> [k \in 1..Len(rows) |-> [rows[k] EXCEPT !.tid = ids[k]]]]

\* The category metadata after the first block of extend.
ExtendMeta(self, other) ==
    IF Size(self) = 0 /\ Size(other) > 0
    THEN [self EXCEPT !.is_cat_inclusive = other.is_cat_inclusive,
                      !.is_categorised = other.is_categorised]
    ELSE self

\* The two ConcatenationError conditions of extend.
ExtendMetaClash(self, other) ==
    /\ Size(self) > 0
    /\ Size(other) > 0
    /\ \/ self.is_cat_inclusive # other.is_cat_inclusive
       \/ self.is_categorised # other.is_categorised

ExtendStepClash(self, other) ==
    /\ self.tstep_h # NoStep
    /\ other.tstep_h # NoStep
    /\ self.tstep_h # other.tstep_h

\* The data of extend: concat, then the track index renumbered.
ExtendData(d1, d2) == SetTrackIdx(d1 \o d2, ReIndex(Level0(d1 \o d2)))

\* TrackRun.extend(other): the object afterwards and the exception raised.
\* A metadata clash raises before anything is written; a time step clash
\* raises after the metadata were taken over from other.
Extend(self, other) ==
    IF ExtendMetaClash(self, other)
    THEN [tr |-> self, err |-> "ConcatenationError"]
    ELSE LET m == ExtendMeta(self, other) IN
         IF ExtendStepClash(m, other)
         THEN [tr |-> m, err |-> "ConcatenationError"]
         ELSE [tr |-> [m EXCEPT
                         !.tstep_h = IF m.tstep_h = NoStep THEN other.tstep_h
                                     ELSE m.tstep_h,
                         !.data = ExtendData(m.data, other.data),
                         !.cats = IF m.cats.none /\ other.cats.none THEN NoCats
                                  ELSE ConcatCats(m.cats, other.cats)],
               err |-> "none"]

\* TrackRun.__add__: a new object extended by self, then by other.
Add(self, other) ==
    LET first == Extend(EmptyRun, self) IN
    IF first.err # "none" THEN first ELSE Extend(first.tr, other)

\* crit of time_slice: one boolean per record of self.data.
SliceCrit(rec, start, end) ==
    /\ (start = NoTime \/ rec.time >= start)
    /\ (end = NoTime \/ rec.time <= end)

\* result.data[crit]: crit carries the index of self.data and is aligned on
\* the index of result.data, which extend has renumbered.  When the two
\* indexes are equal the mask applies record by record; otherwise a record
\* of result.data has no entry in crit and pandas raises IndexingError.
SliceAligned(old, new) == Level0(old) = Level0(new)

MaskData(new, old, start, end) ==
    LET keep == {i \in 1..Len(new) : SliceCrit(old[i], start, end)}
    IN  [k \in 1..Cardinality(keep) |-> new[SortedSeq(keep)[k]]]

\* TrackRun.time_slice(start, end): the object returned and the exception.
TimeSlice(self, start, end) ==
    IF start = NoTime /\ end = NoTime THEN [tr |-> self, err |-> "none"]
    ELSE LET copy == Extend(EmptyRun, self) IN
         IF copy.err # "none" THEN copy
         ELSE IF ~SliceAligned(self.data, copy.tr.data)
         THEN [tr |-> self, err |-> "IndexingError"]
         ELSE [tr |-> [copy.tr EXCEPT
                         !.data = MaskData(copy.tr.data, self.data, start, end)],
               err |-> "none"]

\* TrackRun.clear_categories() with no argument.
ClearCategories(self) ==
    [self EXCEPT !.cats = NoCats, !.is_categorised = FALSE,
                 !.is_cat_inclusive = FALSE]

\* The label classify gives condition icond: the label itself, or, for
\* inclusive categories, the label joined to the labels before it, latest
\* first.
NewLabel(labels, icond, inclusive) ==
    IF inclusive THEN [k \in 1..icond |-> labels[icond + 1 - k]]
    ELSE Lab(labels[icond])

NewLabels(labels, inclusive) ==
    [i \in 1..Len(labels) |-> NewLabel(labels, i, inclusive)]

\* pd.concat([self.cats, DataFrame(index=ids, columns=labs).fillna(False)],
\* axis="columns"): the rows are joined on the index (the union of the two
\* indexes, the old rows first when they hold every id, sorted otherwise);
\* a flag missing on either side is FALSE.
JoinCats(cats, ids, labs) ==
    LET old == IF cats.none THEN <<>> ELSE cats.rows
        oldids == [k \in 1..Len(old) |-> old[k].tid]
        index == IF cats.none THEN ids
                 ELSE IF oldids = ids THEN ids
                 ELSE SortedSeq(Range(oldids) \cup Range(ids))
        cols == cats.cols \o labs
        flagsOf(id) ==
            [c \in Range(cols) |->
                /\ c \in Range(cats.cols)
                /\ \E k \in 1..Len(old) : old[k].tid = id /\ old[k].flags[c]]
    IN  [none |-> FALSE, cols |-> cols,
         rows |-> [k \in 1..Len(index) |->
                     [tid |-> index[k], flags |-> flagsOf(index[k])]]]

\* The join needs a category index without duplicates: pandas cannot
\* reindex a frame whose index holds a label twice.
JoinUnique(cats) ==
    \A j, k \in 1..Len(cats.rows) :
        cats.rows[j].tid = cats.rows[k].tid => j = k

\* A variant of the flag that leaves out the conditions before i; C16
\* tells it from CondFlag.
CondFlagAlone(pass, i, id, inclusive) == id \in pass[i]

\* The flag of track id for condition i after the loop over the conditions:
\* the conjunction of its predicates, and for inclusive categories of the
\* flags of the conditions before it.
CondFlag(pass, i, id, inclusive) ==
    IF inclusive THEN \A j \in 1..i : id \in pass[j] ELSE id \in pass[i]

\* self.cats.loc[i, label] = True for every track i of the data and every
\* condition whose flag holds; every row indexed i is written.
PunchFlags(cats, data, labs, pass, inclusive) ==
    [cats EXCEPT !.rows =
        [k \in 1..Len(cats.rows) |->
            [cats.rows[k] EXCEPT !.flags =
                [c \in Range(cats.cols) |->
                    \/ cats.rows[k].flags[c]
                    \/ /\ cats.rows[k].tid \in Range(Level0(data))
                       /\ \E i \in 1..Len(labs) :
                             /\ labs[i] = c
                             /\ CondFlag(pass, i, cats.rows[k].tid, inclusive)]]]]

\* TrackRun.classify(conditions, inclusive, clear): labels are the labels of
\* the conditions, pass[i] the tracks on which every predicate of condition
\* i holds.  The label "all" raises after the categories were cleared and
\* is_cat_inclusive was written.
Classify(self, labels, pass, inclusive, clear) ==
    LET c0 == IF clear THEN ClearCategories(self) ELSE self
        c1 == [c0 EXCEPT !.is_cat_inclusive = inclusive]
        labs == NewLabels(labels, inclusive)
        joined == JoinCats(c1.cats, Unique(Level0(c1.data)), labs)
    IN  IF "all" \in Range(labels)
        THEN [tr |-> c1, err |-> "ArgumentError"]
        ELSE IF ~JoinUnique(c1.cats)
        THEN [tr |-> c1, err |-> "InvalidIndexError"]
        ELSE [tr |-> [c1 EXCEPT
                        !.cats = PunchFlags(joined, c1.data, labs, pass, inclusive),
                        !.is_categorised = TRUE],
              err |-> "none"]

\* ---------------------------------------------------------- match_tracks
\* The others argument: a list of track frames, a TrackRun, or an object of
\* another type, with a length ("tuple") or without one ("unsized").  The
\* tracks of a list or tuple are held as the data of run, item k under the
\* key k - 1, which is what pd.concat(..., keys=range(len(others))) gives.
Others(kind, run) == [kind |-> kind, run |-> run]

\* len(others): TrackRun.__len__ for a run, the number of items otherwise.
OthersLen(others) == TrackRunLen(others.run)

\* What a call returns or raises: the pair list, with the distance matrix
\* when bs2000 is asked for it.
Pairs(ps) ==
    [kind |-> "ok", err |-> "none", pairs |-> ps, hasdm |-> FALSE, dm |-> <<>>]

PairsAndMatrix(ps, dm) ==
    [kind |-> "ok", err |-> "none", pairs |-> ps, hasdm |-> TRUE, dm |-> dm]

Fail(e) ==
    [kind |-> "error", err |-> e, pairs |-> <<>>, hasdm |-> FALSE, dm |-> <<>>]

\* dist_matrix of bs2000: row i is the i-th track of the self subset, column
\* j the j-th track of the other groups; metric gives distance_metric's
\* value for the two tracks.
DistMatrix(subKeys, otherKeys, metric) ==
    [i \in 1..Len(subKeys) |->
        [j \in 1..Len(otherKeys) |-> metric[<<subKeys[i], otherKeys[j]>>]]]

\* np.nanargmin(dist_matrix, axis=0)[j]: the first row holding the least
\* value of column j.
ArgMinOfColumn(dm, j) ==
    CHOOSE i \in 1..Len(dm) :
        /\ \A k \in 1..Len(dm) : dm[i][j] <= dm[k][j]
        /\ \A k \in 1..(i - 1) : dm[k][j] > dm[i][j]

\* np.nanargmin(dist_matrix, axis=1)[i]: the first column holding the least
\* value of row i.
ArgMinOfRow(dm, i) ==
    CHOOSE j \in 1..Len(dm[i]) :
        /\ \A k \in 1..Len(dm[i]) : dm[i][j] <= dm[i][k]
        /\ \A k \in 1..(j - 1) : dm[i][k] > dm[i][j]

\* A variant of the test that asks only for i == idx2; C1 tells it from
\* IsMutual.
IsNearestOfRow(dm, i, j) == i = ArgMinOfRow(dm, j)

\* The test of the double loop of bs2000, i running over the columns and j
\* over the rows: i == idx2 and j == idx1.
IsMutual(dm, i, j) ==
    i = ArgMinOfRow(dm, j) /\ j = ArgMinOfColumn(dm, i)

\* The pairs of bs2000 in the order the double loop appends them.
MatchBS2000(subKeys, otherKeys, metric) ==
    LET dm == DistMatrix(subKeys, otherKeys, metric) IN
    Flatten([i \in 1..Len(otherKeys) |->
        Flatten([j \in 1..Len(subKeys) |->
            IF IsMutual(dm, i, j)
            THEN <<<<subKeys[ArgMinOfColumn(dm, i)],
                     otherKeys[ArgMinOfRow(dm, j)]>>>>
            ELSE <<>>])])

\* Positions lie on one line and are whole kilometres; great_circle gives
\* metres.  The time unit is the hour, so a division by HOUR changes nothing.
KM2M == 1000

Abs(v) == IF v < 0 THEN 0 - v ELSE v

GreatCircle(x1, x2) == KM2M * Abs(x1 - x2)

\* pd.merge(other_ot, ot, how="inner", on="time"): for every record of the
\* left frame, every record of the right frame with the same time.
MergeOnTime(left, right) ==
    Flatten([k \in 1..Len(left) |->
        LET hit == SelectSeq(right, LAMBDA r : r.time = left[k].time)
        IN  [m \in 1..Len(hit) |->
                [time |-> left[k].time, x_x |-> left[k].x, x_y |-> hit[m].x]]])

\* The test of method "intersection" for one self track ot and one other
\* track other_ot; time_frac is the fraction tf.n / tf.d.  With a single
\* common time the step of the merged times is NaT and no comparison holds.
IntersectionHit(ot, other_ot, thresh_dist, tf) ==
    LET span == other_ot[Len(other_ot)].time - other_ot[1].time
        inter == MergeOnTime(other_ot, ot)
        n == Len(inter)
        tstep == inter[n].time - inter[n - 1].time
        near == Cardinality({k \in 1..n :
                    GreatCircle(inter[k].x_x, inter[k].x_y) < thresh_dist * KM2M})
    IN  /\ n > 1
        /\ n * tstep * tf.d > tf.n * span
        /\ near * tstep * tf.d > tf.n * span

\* A variant of method "intersection" that goes on scanning and reports the
\* last other track that passes the test; C14 tells it from
\* MatchIntersection.
MatchIntersectionLast(sub, other, thresh_dist, tf) ==
    Flatten([k \in 1..Len(GroupKeys(sub)) |->
        LET hit == SelectSeq(GroupKeys(other),
                      LAMBDA o : IntersectionHit(Group(sub, GroupKeys(sub)[k]),
                                                 Group(other, o), thresh_dist, tf))
        IN  IF hit = <<>> THEN <<>>
            ELSE <<<<GroupKeys(sub)[k], hit[Len(hit)]>>>>])

\* Method "intersection": every self track takes the first other track, in
\* group order, that passes the test.
MatchIntersection(sub, other, thresh_dist, tf) ==
    LET subKeys == GroupKeys(sub)
        otherKeys == GroupKeys(other)
        hits(id) == SelectSeq(otherKeys,
                       LAMBDA o : IntersectionHit(Group(sub, id), Group(other, o),
                                                  thresh_dist, tf))
    IN  Flatten([k \in 1..Len(subKeys) |->
            IF hits(subKeys[k]) = <<>> THEN <<>>
            ELSE <<<<subKeys[k], hits(subKeys[k])[1]>>>>])

\* sort_index on the time index: by time, records of one time in the order
\* they had.
RECURSIVE SortByTime(_)
SortByTime(df) ==
    IF df = <<>> THEN <<>>
    ELSE LET k == CHOOSE k \in 1..Len(df) :
                    /\ \A j \in 1..Len(df) : df[k].time <= df[j].time
                    /\ \A j \in 1..(k - 1) : df[j].time > df[k].time
         IN  <<df[k]>> \o SortByTime([j \in 1..(Len(df) - 1) |->
                                         IF j < k THEN df[j] ELSE df[j + 1]])

\* The last record of the sorted donor s that is not after time t.
LastNotAfter(s, t) ==
    CHOOSE k \in 1..Len(s) :
        /\ s[k].time <= t
        /\ \A j \in (k + 1)..Len(s) : s[j].time > t

\* interpolate(method="values") at time t, between record k of the sorted
\* donor s and the next: linear in time, the last donor value from the last
\* donor time on.  The value is the fraction n / d.
InterpSegment(s, k, t) ==
    IF k = Len(s) THEN [n |-> s[k].x, d |-> 1]
    ELSE [n |-> s[k].x * (s[k + 1].time - s[k].time)
                  + (s[k + 1].x - s[k].x) * (t - s[k].time),
          d |-> s[k + 1].time - s[k].time]

InterpAt(s, t) == InterpSegment(s, LastNotAfter(s, t), t)

\* The rows .loc[t] returns from the sorted, interpolated frame for one
\* time t of df2: the donor's own records of that time, then the records
\* df2 put there, interpolated; a record before the donor's first time
\* stays NaN and is dropped.
RowsAtTime(s, df2, t) ==
    [m \in 1..Len(SelectSeq(s, LAMBDA r : r.time = t)) |->
        [n |-> SelectSeq(s, LAMBDA r : r.time = t)[m].x, d |-> 1]]
      \o (IF t < s[1].time THEN <<>>
          ELSE [m \in 1..Len(SelectSeq(df2, LAMBDA r : r.time = t)) |->
                   InterpAt(s, t)])

\* new_df1 of method "simple": the rows .loc[tmp_df2.time] returns, s being
\* the donor sorted by time.
RowsOfSorted(s, df2) ==
    Flatten([k \in 1..Len(df2) |-> RowsAtTime(s, df2, df2[k].time)])

InterpolatedRows(df1, df2) == RowsOfSorted(SortByTime(df1), df2)

Smaller(m, n) == IF m < n THEN m ELSE n

\* within_r_idx.sum(): row i of new_df1 is compared with record i of df2;
\* a row without partner keeps FILLVAL and is not within the radius.
CountWithin(rows, df2, thresh_dist) ==
    Cardinality({i \in 1..Smaller(Len(rows), Len(df2)) :
        KM2M * Abs(rows[i].n - df2[i].x * rows[i].d)
            < thresh_dist * KM2M * rows[i].d})

WithinCount(df1, df2, thresh_dist) ==
    CountWithin(InterpolatedRows(df1, df2), df2, thresh_dist)

\* df1, df2 of method "simple" for the self track ct and the other track.
Donor(ct, other_ct, interpolate_to) ==
    IF interpolate_to = "other" THEN ct ELSE other_ct

Target(ct, other_ct, interpolate_to) ==
    IF interpolate_to = "other" THEN other_ct ELSE ct

Later(t1, t2) == IF t1 > t2 THEN t1 ELSE t2

\* The tracks overlap in time: (e_end - l_start) / HOUR > 0.
Overlap(df1, df2) ==
    Smaller(df1[Len(df1)].time, df2[Len(df2)].time)
        - Later(df1[1].time, df2[1].time) > 0

\* The test that makes a self track a candidate: the tracks overlap and the
\* count exceeds thr = time_frac * df2.shape[0].
PassesSimple(df1, df2, thresh_dist, tf) ==
    /\ Overlap(df1, df2)
    /\ WithinCount(df1, df2, thresh_dist) * tf.d > tf.n * Len(df2)

IsCandidate(ct, other_ct, interpolate_to, thresh_dist, tf) ==
    PassesSimple(Donor(ct, other_ct, interpolate_to),
                 Target(ct, other_ct, interpolate_to), thresh_dist, tf)

\* The candidates of one other track, in the group order of the self subset.
Candidates(sub, other_ct, interpolate_to, thresh_dist, tf) ==
    SelectSeq(GroupKeys(sub),
              LAMBDA id : IsCandidate(Group(sub, id), other_ct,
                                      interpolate_to, thresh_dist, tf))

\* The count each self track reaches against one other track.
Counts(sub, other_ct, interpolate_to, thresh_dist) ==
    [id \in Range(Level0(sub)) |->
        WithinCount(Donor(Group(sub, id), other_ct, interpolate_to),
                    Target(Group(sub, id), other_ct, interpolate_to),
                    thresh_dist)]

\* A variant of the choice that takes the first candidate of the greatest
\* count; C13 tells it from FinalCandidate.
FirstBestCandidate(cands, count) ==
    CHOOSE k \in 1..Len(cands) :
        /\ \A j \in 1..Len(cands) : count[cands[j]] <= count[cands[k]]
        /\ \A j \in 1..(k - 1) : count[cands[j]] < count[cands[k]]

\* sorted(candidates, key=count)[-1][0]: the candidate of the greatest
\* count, the last one in group order among equals.
FinalCandidate(cands, count) ==
    CHOOSE k \in 1..Len(cands) :
        /\ \A j \in 1..Len(cands) : count[cands[j]] <= count[cands[k]]
        /\ \A j \in (k + 1)..Len(cands) : count[cands[j]] < count[cands[k]]

\* What one other track adds to match_pairs.
SimplePair(cands, count, o) ==
    IF cands = <<>> THEN <<>>
    ELSE <<<<cands[FinalCandidate(cands, count)], o>>>>

\* Method "simple": every other track takes its final candidate.
MatchSimple(sub, other, interpolate_to, thresh_dist, tf) ==
    Flatten([k \in 1..Len(GroupKeys(other)) |->
        SimplePair(Candidates(sub, Group(other, GroupKeys(other)[k]),
                              interpolate_to, thresh_dist, tf),
                   Counts(sub, Group(other, GroupKeys(other)[k]),
                          interpolate_to, thresh_dist),
                   GroupKeys(other)[k])])

\* A variant of the test that never finds the subset empty; C2 tells it
\* from NoTracks.
NeverNoTracks(sub) == FALSE

\* len(sub_gb) == 0: the subset holds no track.
NoTracks(sub) == Len(GroupKeys(sub)) = 0

\* The body of match_tracks for one subset.  a holds the arguments: others,
\* subset, method, interpolate_to, thresh_dist, time_frac (tf),
\* return_dist_matrix (ret) and metric, the values distance_metric takes.
MatchSubset(self, a) ==
    LET got == GetItem(self, a.subset)
        sub == got.val
        ogot == GetItem(a.others.run, a.subset)
        other == IF a.others.kind = "list" THEN a.others.run.data ELSE ogot.val
    IN  IF got.kind = "error" THEN Fail(got.err)
        ELSE IF NoTracks(sub) THEN Pairs(<<>>)
        ELSE IF a.others.kind = "unsized" THEN Fail("TypeError")
        ELSE IF OthersLen(a.others) = 0 THEN Pairs(<<>>)
        ELSE IF a.others.kind \notin {"list", "run"} THEN Fail("ArgumentError")
        ELSE IF a.others.kind = "run" /\ ogot.kind = "error" THEN Fail(ogot.err)
        ELSE IF a.method = "intersection"
        THEN Pairs(MatchIntersection(sub, other, a.thresh_dist, a.tf))
        ELSE IF a.method = "simple"
        THEN Pairs(MatchSimple(sub, other, a.interpolate_to, a.thresh_dist, a.tf))
        ELSE IF a.method = "bs2000"
        THEN LET ps == MatchBS2000(GroupKeys(sub), GroupKeys(other), a.metric)
             IN  IF a.ret
                 THEN PairsAndMatrix(ps, DistMatrix(GroupKeys(sub),
                                                    GroupKeys(other), a.metric))
                 ELSE Pairs(ps)
        ELSE Fail("ArgumentError")

\* The first label, in column order, whose call raises; 0 when none does.
\* raised[k] tells whether the call for label k raises.
FirstFailing(raised) ==
    IF \A k \in 1..Len(raised) : ~raised[k] THEN 0
    ELSE CHOOSE k \in 1..Len(raised) :
            /\ raised[k]
            /\ \A j \in 1..(k - 1) : ~raised[j]

\* A variant of match_tracks without the loop over the labels: subset None
\* always stands for "all".  C8 tells it from MatchTracks.
MatchTracksPlain(self, a) ==
    [kind |-> MatchSubset(self, IF a.subset.kind = "none"
                                THEN [a EXCEPT !.subset = SubStr(AllStr)]
                                ELSE a).kind,
     err |-> MatchSubset(self, IF a.subset.kind = "none"
                               THEN [a EXCEPT !.subset = SubStr(AllStr)]
                               ELSE a).err,
     one |-> MatchSubset(self, IF a.subset.kind = "none"
                               THEN [a EXCEPT !.subset = SubStr(AllStr)]
                               ELSE a),
     keys |-> {}, map |-> <<>>]

\* TrackRun.match_tracks: with subset None on a categorised run, one call
\* per category label, gathered in a dict; the first call that raises ends
\* the loop.  Otherwise subset None stands for "all".
MatchTracks(self, a) ==
    IF a.subset.kind = "none" /\ self.is_categorised
    THEN LET labs == CatLabels(self)
             inner(lab) == MatchSubset(self, [a EXCEPT !.subset = SubStr(lab)])
             bad == FirstFailing([k \in 1..Len(labs) |->
                                     inner(labs[k]).kind = "error"])
         IN  IF bad # 0
             THEN [kind |-> "error", err |-> inner(labs[bad]).err,
                   one |-> Fail(inner(labs[bad]).err), keys |-> {}, map |-> <<>>]
             ELSE [kind |-> "map", err |-> "none", one |-> Pairs(<<>>),
                   keys |-> Range(labs),
                   map |-> [lab \in Range(labs) |-> inner(lab)]]
    ELSE LET r == MatchSubset(self,
                     IF a.subset.kind = "none"
                     THEN [a EXCEPT !.subset = SubStr(AllStr)] ELSE a)
         IN  [kind |-> r.kind, err |-> r.err, one |-> r, keys |-> {}, map |-> <<>>]

\* --------------------------------------------------------------- density
\* The calendar of the model: time 0 is the first day of month 10, a month
\* has two days.
MonthOf(t) == 10 + (t \div 2)

DayOf(t) == 1 + (t % 2)

\* cell_bounds: the midpoints of neighbouring centres, with the two ends
\* extrapolated by half a step.  All grid coordinates are kept doubled, so
\* that a midpoint is a whole number.
CellBounds(c) ==
    [k \in 1..(Len(c) + 1) |->
        IF k = 1 THEN 2 * c[1] - (c[2] - c[1])
        ELSE IF k = Len(c) + 1 THEN 2 * c[Len(c)] + (c[Len(c)] - c[Len(c) - 1])
        ELSE c[k - 1] + c[k]]

Doubled(c) == [k \in 1..Len(c) |-> 2 * c[k]]

\* The boundary array built from an argument of density.
GridBounds(c1d, grid_centres) ==
    IF grid_centres THEN CellBounds(c1d) ELSE Doubled(c1d)

\* (np.diff(bounds) < 0).any()
HasDecreasingStep(b) == \E k \in 1..(Len(b) - 1) : b[k + 1] - b[k] < 0

\* A variant of the check that rejects no grid; C6 tells it from
\* GridRejected.
GridNeverRejected(lon, lat) == FALSE

\* The check of method "cell" that raises GridError.
GridRejected(lon, lat) == HasDecreasingStep(lon) \/ HasDecreasingStep(lat)

\* cy_func: the aggregation chosen by method and by.
CyFunc(method, by) ==
    IF method = "radius"
    THEN (IF by = "track" THEN "track_density_rad" ELSE "point_density_rad")
    ELSE (IF by = "track" THEN "track_density_cell" ELSE "point_density_cell")

\* _exclude_by_first_day as groupby.filter calls it, with the group of one
\* track.  df.time.dt.month[0] is a lookup of the label 0 in the track
\* level: for track 0 it gives the months of all its records, for another
\* track the label is missing and the first record is taken by position.
ExcludeByFirstDay(df, m, d) ==
    IF df[1].tid = 0
    THEN ~((\E k \in 1..Len(df) : MonthOf(df[k].time) = m)
              /\ (\E k \in 1..Len(df) : DayOf(df[k].time) = d))
    ELSE ~(MonthOf(df[1].time) = m /\ DayOf(df[1].time) = d)

\* _exclude_by_last_day: the label -1 is in no track level, the last record
\* is taken by position.
ExcludeByLastDay(df, m, d) ==
    ~(MonthOf(df[Len(df)].time) = m /\ DayOf(df[Len(df)].time) = d)

\* groupby.filter: the records of the groups that pass, kept being the
\* ids of these groups.
FilterGroups(data, kept) == SelectSeq(data, LAMBDA r : r.tid \in kept)

\* groupby.tail(1): the last record of every group, in frame order.
Tail1(data) ==
    LET last(i) == \A j \in (i + 1)..Len(data) : data[j].tid # data[i].tid
        keep == {i \in 1..Len(data) : last(i)}
    IN  [k \in 1..Cardinality(keep) |-> data[SortedSeq(keep)[k]]]

\* The points of by = "genesis": the records of row_idx 0 of the tracks
\* that pass the filter.
GenesisPoints(sub, ex) ==
    SelectSeq(FilterGroups(sub, {id \in Range(Level0(sub)) :
                                   ExcludeByFirstDay(Group(sub, id), ex.m, ex.d)}),
              LAMBDA r : r.row = 0)

\* The points of by = "lysis".
LysisPoints(sub, ex) ==
    FilterGroups(Tail1(sub),
                 {id \in Range(Level0(sub)) :
                     ExcludeByLastDay(Group(Tail1(sub), id), ex.m, ex.d)})

DensRaise(e, steps) ==
    [kind |-> "error", err |-> e, steps |-> steps, func |-> "none",
     points |-> <<>>, lon |-> <<>>, lat |-> <<>>, units |-> "none",
     subset |-> SubNone, method |-> "none", name |-> <<>>]

\* The body of density for one subset.  a holds the arguments lon1d, lat1d,
\* by, subset, method, exclude_first, exclude_last, grid_centres and
\* weight_by_area.  steps lists what was done before the return or raise:
\* the grid, the subset lookup, the choice of the aggregation, the selection
\* of the points, the aggregation, the weighting.
DensitySubset(self, a) ==
    LET lon == GridBounds(a.lon1d, a.grid_centres)
        lat == GridBounds(a.lat1d, a.grid_centres)
        got == GetItem(self, a.subset)
        sub == got.val
        known == a.method \in {"radius", "cell"}
        gen == GenesisPoints(sub, a.exclude_first)
        points == IF a.by = "genesis" THEN gen
                  ELSE IF a.by = "lysis" THEN LysisPoints(sub, a.exclude_last)
                  ELSE sub
    IN  IF got.kind = "error" THEN DensRaise(got.err, <<"grid", "subset">>)
        ELSE IF a.method = "cell" /\ GridRejected(lon, lat)
        THEN DensRaise("GridError", <<"grid", "subset", "method">>)
        ELSE IF a.by \notin {"point", "track", "genesis", "lysis"}
        THEN DensRaise("ArgumentError", <<"grid", "subset", "method">>)
        ELSE IF a.by = "genesis" /\ gen = <<>>
        THEN DensRaise("KeyError", <<"grid", "subset", "method", "points">>)
        ELSE IF ~known
        THEN DensRaise("UnboundLocalError", <<"grid", "subset", "method", "points">>)
        ELSE [kind |-> "ok", err |-> "none",
              steps |-> <<"grid", "subset", "method", "points", "aggregate">>
                           \o (IF a.weight_by_area THEN <<"weight">> ELSE <<>>),
              func |-> CyFunc(a.method, a.by), points |-> points,
              lon |-> lon, lat |-> lat,
              units |-> IF a.weight_by_area THEN "km-2"
                        ELSE IF a.method = "radius" THEN "per disc" ELSE "1",
              subset |-> a.subset, method |-> a.method,
              name |-> <<a.by, "_density">>]

\* TrackRun.density: the dispatch over the category labels is that of
\* match_tracks.
Density(self, a) ==
    IF a.subset.kind = "none" /\ self.is_categorised
    THEN LET labs == CatLabels(self)
             inner(lab) == DensitySubset(self, [a EXCEPT !.subset = SubStr(lab)])
             bad == FirstFailing([k \in 1..Len(labs) |->
                                     inner(labs[k]).kind = "error"])
         IN  IF bad # 0
             THEN [kind |-> "error", err |-> inner(labs[bad]).err,
                   one |-> inner(labs[bad]), keys |-> {}, map |-> <<>>]
             ELSE [kind |-> "map", err |-> "none", one |-> DensRaise("none", <<>>),
                   keys |-> Range(labs),
                   map |-> [lab \in Range(labs) |-> inner(lab)]]
    ELSE LET r == DensitySubset(self,
                     IF a.subset.kind = "none"
                     THEN [a EXCEPT !.subset = SubStr(AllStr)] ELSE a)
         IN  [kind |-> r.kind, err |-> r.err, one |-> r, keys |-> {}, map |-> <<>>]

\* ------------------------------------------------------------ the inputs
\* A loaded run: tracks 0..n-1, track k with lens[k] records at the times
\* k, k + step, ...; tstep_h is set from the first track with more than one
\* record (TrackRun.__init__).
LoadedData(slot, lens, step) ==
    Flatten([k \in 1..Len(lens) |->
                [r \in 1..lens[k] |->
                    [tid |-> k - 1, row |-> r - 1,
                     time |-> (k - 1) + step * (r - 1), x |-> 0,
                     orig |-> 10 * slot + k]]])

LoadedRun(slot, lens, step) ==
    [EmptyRun EXCEPT
        !.data = LoadedData(slot, lens, step),
        !.tstep_h = IF \E k \in 1..Len(lens) : lens[k] > 1 THEN step
                    ELSE NoStep]

TrackLens == UNION {[1..n -> 1..MaxRecs] : n \in 0..MaxTracks}

Times == 0..(MaxTracks + MaxRecs - 2)

\* The label lists classify is called with.
CondLabels ==
    {<<>>, <<"A">>, <<"B">>, <<"A", "B">>, <<"all">>}

\* The subsets a caller asks for.
Subsets ==
    {SubNone, SubStr(AllStr), SubStr(Lab("A")), SubStr(Lab("B")),
     SubStr(<<"B", "A">>), SubStr(UnknownLabel),
     SubList(<<Lab("A"), Lab("B")>>)}

\* The runs extend and + are given: a loaded run, as loaded or classified
\* by one label; one of them has another time step.
OtherRuns ==
    {LoadedRun(2, l, 1) : l \in TrackLens}
      \cup {LoadedRun(2, <<2>>, 2)}
      \cup {Classify(LoadedRun(2, l, 1), <<"A">>, <<p>>, inc, TRUE).tr :
               l \in {<<1>>, <<1, 2>>}, p \in SUBSET {0, 1}, inc \in BOOLEAN}

\* The runs match_tracks and density are called on: a loaded run of up to
\* MaxCall tracks, as loaded or classified.
CallLens ==
    {[k \in 1..n |-> IF k = 1 THEN f ELSE 2] : n \in 0..MaxCall, f \in 1..2}

Classified(run) ==
    LET ids == Range(Level0(run.data)) IN
    {run, Classify(run, <<>>, <<>>, FALSE, TRUE).tr}
      \cup {Classify(run, <<"A">>, <<p>>, FALSE, TRUE).tr : p \in SUBSET ids}
      \cup {Classify(run, <<"A", "B">>, <<p, ids \ p>>, FALSE, TRUE).tr :
               p \in SUBSET ids}

\* The runs of the calls: the hourly runs, as loaded or classified, and a
\* two-hourly run.
CallRuns ==
    UNION {Classified(LoadedRun(1, l, 1)) : l \in CallLens}
      \cup {LoadedRun(1, [k \in 1..MaxCall |-> 2], 2)}

\* The others arguments: lists and tuples of tracks, runs, an object
\* without length.
OtherArgs ==
    {Others("list", LoadedRun(2, l, 1)) : l \in CallLens}
      \cup {Others("run", r) :
               r \in Classified(LoadedRun(2, [k \in 1..MaxCall |-> 2], 1))
                       \cup {EmptyRun}}
      \cup {Others("tuple", LoadedRun(2, l, 1)) : l \in {<<>>, <<2>>}}
      \cup {Others("unsized", EmptyRun)}

CallSubsets == {SubNone, SubStr(AllStr), SubStr(Lab("A")), SubStr(UnknownLabel)}

Methods == {"intersection", "simple", "bs2000", "nearest"}

DistValues == 0..MaxDist

TrackIds == 0..(MaxCall - 1)

ZeroMetric == [pr \in TrackIds \X TrackIds |-> 0]

Half == [n |-> 1, d |-> 2]

MatchArg(others, subset, method, ret, metric) ==
    [others |-> others, subset |-> subset, method |-> method,
     interpolate_to |-> "other", thresh_dist |-> 1, tf |-> Half,
     ret |-> ret, metric |-> metric]

\* The calls of match_tracks: every kind of others with every subset and
\* method, bs2000 returning the distance matrix likewise, and bs2000 on
\* full collections with every distance matrix.
MatchArgs ==
    {MatchArg(o, sub, m, FALSE, ZeroMetric) :
        o \in OtherArgs, sub \in CallSubsets, m \in Methods}
      \cup {MatchArg(o, sub, "bs2000", TRUE, ZeroMetric) :
               o \in OtherArgs, sub \in CallSubsets}
      \cup {MatchArg(o, sub, "bs2000", ret, metric) :
               o \in {Others("list", LoadedRun(2, [k \in 1..MaxCall |-> 2], 1)),
                      Others("run", LoadedRun(2, [k \in 1..MaxCall |-> 2], 1))},
               sub \in {SubNone, SubStr(Lab("A"))}, ret \in BOOLEAN,
               metric \in [TrackIds \X TrackIds -> DistValues]}

\* The grids: ascending, with a decreasing step, with two equal values,
\* and centres with a decreasing step whose bounds still ascend.
Grids == {<<0, 1, 2>>, <<0, 2, 1>>, <<0, 1, 1>>, <<0, 3, 2, 5>>}

Bys == {"point", "track", "genesis", "lysis", "storm"}

DensMethods == {"radius", "cell", "box"}

\* Days given as exclude_first and exclude_last besides the two DensArg
\* sets: the second day of month 10, the first of month 11.
ExcludedDays == {[m |-> 10, d |-> 2], [m |-> 11, d |-> 1]}

DensArg(lon, lat, by, subset, method, gc, w) ==
    [lon1d |-> lon, lat1d |-> lat, by |-> by, subset |-> subset,
     method |-> method, exclude_first |-> [m |-> 10, d |-> 1],
     exclude_last |-> [m |-> 11, d |-> 2], grid_centres |-> gc,
     weight_by_area |-> w]

DensArgs ==
    {DensArg(lon, lat, by, sub, m, gc, TRUE) :
        lon \in Grids, lat \in {<<0, 1, 2>>, <<2, 1, 0>>}, by \in Bys,
        sub \in CallSubsets, m \in DensMethods, gc \in BOOLEAN}
      \cup {DensArg(<<0, 1, 2>>, <<0, 1, 2>>, by, sub, m, TRUE, FALSE) :
               by \in Bys, sub \in CallSubsets, m \in DensMethods}
      \cup {[DensArg(<<0, 1, 2>>, <<0, 1, 2>>, by, sub, "cell", TRUE, FALSE)
                EXCEPT !.exclude_first = ex, !.exclude_last = ex] :
               by \in {"genesis", "lysis"}, sub \in CallSubsets,
               ex \in ExcludedDays}

VARIABLES tr, last, sel, nops, res

vars == <<tr, last, sel, nops, res>>

NoRes == [op |-> "none"]

\* The arguments of the last classify; NoArgs after another operation.
NoArgs == [labels |-> <<>>, inclusive |-> FALSE, clear |-> FALSE]

Idle ==
    [op |-> "init", self |-> EmptyRun, other |-> EmptyRun, err |-> "none",
     args |-> NoArgs]

NoSel == [subset |-> SubNone, out |-> Ok(<<>>), done |-> FALSE]

Init ==
    /\ \E l \in TrackLens : tr = LoadedRun(1, l, 1)
    /\ last = Idle
    /\ sel = NoSel
    /\ nops = 0
    /\ res = NoRes

\* An operation is called while the model's bound on the run allows it; a
\* selection is the last step of a run, it changes nothing an operation
\* reads.
CanCall == nops < MaxOps /\ ~sel.done

\* tr.classify(conditions, inclusive, clear).  The new labels are not yet
\* columns of the category frame.
DoClassify ==
    /\ CanCall
    /\ \E labels \in CondLabels, inclusive \in BOOLEAN, clear \in BOOLEAN :
       \E pass \in [1..Len(labels) -> SUBSET Range(Level0(tr.data))] :
          LET out == Classify(tr, labels, pass, inclusive, clear) IN
          /\ clear \/ Range(NewLabels(labels, inclusive))
                         \cap Range(CatLabels(tr)) = {}
          /\ tr' = out.tr
          /\ last' = [op |-> "classify", self |-> tr, other |-> EmptyRun,
                      err |-> out.err,
                      args |-> [labels |-> labels, inclusive |-> inclusive,
                                clear |-> clear]]
    /\ UNCHANGED <<sel, res>>
    /\ nops' = nops + 1

\* tr.extend(other)
DoExtend ==
    /\ CanCall
    /\ \E other \in OtherRuns \cup {tr} :
          LET out == Extend(tr, other) IN
          /\ Len(tr.data) + Len(other.data) <= MaxData
          /\ tr' = out.tr
          /\ last' = [op |-> "extend", self |-> tr, other |-> other,
                      err |-> out.err, args |-> NoArgs]
    /\ UNCHANGED <<sel, res>>
    /\ nops' = nops + 1

\* tr = tr + other; nothing is bound when __add__ raises.
DoAdd ==
    /\ CanCall
    /\ \E other \in OtherRuns \cup {tr} :
          LET out == Add(tr, other) IN
          /\ Len(tr.data) + Len(other.data) <= MaxData
          /\ tr' = IF out.err = "none" THEN out.tr ELSE tr
          /\ last' = [op |-> "add", self |-> tr, other |-> other,
                      err |-> out.err, args |-> NoArgs]
    /\ UNCHANGED <<sel, res>>
    /\ nops' = nops + 1

\* tr = tr.time_slice(start, end)
DoTimeSlice ==
    /\ CanCall
    /\ \E start, end \in Times \cup {NoTime} :
          LET out == TimeSlice(tr, start, end) IN
          /\ tr' = IF out.err = "none" THEN out.tr ELSE tr
          /\ last' = [op |-> "time_slice", self |-> tr, other |-> EmptyRun,
                      err |-> out.err, args |-> NoArgs]
    /\ UNCHANGED <<sel, res>>
    /\ nops' = nops + 1

\* tr[subset]
DoGetItem ==
    /\ ~sel.done
    /\ \E subset \in Subsets, build \in PandasBuilds :
          sel' = [subset |-> subset, out |-> GetItemIn(build, tr, subset),
                  done |-> TRUE]
    /\ UNCHANGED <<tr, last, nops, res>>

Next ==
    \/ DoClassify
    \/ DoExtend
    \/ DoAdd
    \/ DoTimeSlice
    \/ DoGetItem

Spec == Init /\ [][Next]_vars

\* ------------------------------------------------- the calls on one run
InitCall ==
    /\ tr \in CallRuns
    /\ last = Idle
    /\ sel = NoSel
    /\ nops = 0
    /\ res = NoRes

\* tr.match_tracks(others, subset, method, ...): one call on the run; it
\* writes nothing to the run.
DoMatch ==
    /\ res.op = "none"
    /\ \E a \in MatchArgs :
          res' = [op |-> "match", a |-> a, out |-> MatchTracks(tr, a)]
    /\ UNCHANGED <<tr, last, sel, nops>>

\* tr.density(lon1d, lat1d, by, subset, method, ...)
DoDensity ==
    /\ res.op = "none"
    /\ \E a \in DensArgs :
          res' = [op |-> "density", a |-> a, out |-> Density(tr, a)]
    /\ UNCHANGED <<tr, last, sel, nops>>

\* --------------------------------------------------------- calc_all_dens
\* SUBSETS of misc.py, the labels of the package's categories without
\* "unknown": here the labels the runs are classified by.
SUBSETS == <<Lab("A"), Lab("B")>>

DENSITY_TYPES == <<"point", "track", "genesis", "lysis">>

\* tr_obj.density(lon2d, lat2d, by=by, subset=subset, **kwargs); kw holds
\* the keyword arguments as a record of density arguments.
DensOf(self, subset, by, kw) ==
    Density(self, [kw EXCEPT !.by = by, !.subset = SubStr(subset)])

\* The calls of the two loops in their order: subset by subset, and for
\* each the four density types.
DensCalls(subsets) ==
    [n \in 1..(Len(subsets) * Len(DENSITY_TYPES)) |->
        [subset |-> subsets[1 + ((n - 1) \div Len(DENSITY_TYPES))],
         by |-> DENSITY_TYPES[1 + ((n - 1) % Len(DENSITY_TYPES))]]]

CalcRaise(e) ==
    [kind |-> "error", err |-> e, subset |-> <<>>, dens_type |-> <<>>,
     cells |-> <<>>]

\* calc_all_dens(tr_obj, lon2d, lat2d, subsets, **kwargs).  The first
\* density call that raises ends the loops.  The subset dimension is built
\* from SUBSETS whatever subsets is: xr.concat over it cannot label a
\* list of another length, and labels a list of that length by SUBSETS.
CalcAllDens(self, subsets, kw) ==
    LET calls == DensCalls(subsets)
        bad == FirstFailing([n \in 1..Len(calls) |->
                   DensOf(self, calls[n].subset, calls[n].by, kw).kind = "error"])
    IN  IF bad # 0
        THEN CalcRaise(DensOf(self, calls[bad].subset, calls[bad].by, kw).err)
        ELSE IF Len(subsets) # Len(SUBSETS) THEN CalcRaise("ValueError")
        ELSE [kind |-> "ok", err |-> "none", subset |-> SUBSETS,
              dens_type |-> DENSITY_TYPES,
              cells |-> [k \in 1..Len(subsets) |->
                           [j \in 1..Len(DENSITY_TYPES) |->
                               DensOf(self, subsets[k], DENSITY_TYPES[j], kw).one]]]

\* The lists passed as subsets: the default, a shorter list, the default
\* in another order.
SubsetLists == {SUBSETS, <<Lab("A")>>, <<Lab("B")>>, <<Lab("B"), Lab("A")>>}

\* The keyword arguments passed on to density.
CalcKwargs ==
    {[DensArg(<<0, 1, 2>>, <<0, 1, 2>>, "point", SubNone, m, TRUE, w)
        EXCEPT !.exclude_first = ex, !.exclude_last = ex] :
        m \in {"cell", "radius"}, w \in BOOLEAN,
        ex \in ExcludedDays \cup {[m |-> 10, d |-> 1]}}

\* calc_all_dens(tr, lon2d, lat2d, subsets, **kwargs)
DoCalcAllDens ==
    /\ res.op = "none"
    /\ \E subsets \in SubsetLists, kw \in CalcKwargs :
          res' = [op |-> "calc_all_dens", a |-> [subsets |-> subsets, kw |-> kw],
                  out |-> CalcAllDens(tr, subsets, kw)]
    /\ UNCHANGED <<tr, last, sel, nops>>

NextCall ==
    \/ DoMatch
    \/ DoDensity
    \/ DoCalcAllDens

SpecCall == InitCall /\ [][NextCall]_vars

\* ------------------------------------------------------------- the claims
\* The subset a call works on when it is not spread over the labels.
Effective(a) ==
    IF a.subset.kind = "none" THEN SubStr(AllStr) ELSE a.subset

\* The call is spread over the category labels.
Dispatched(a) == a.subset.kind = "none" /\ tr.is_categorised

\* The track ids of the self subset and of the other groups, for subset s.
SubKeysOf(s) == GroupKeys(GetItem(tr, s).val)

OtherKeysOf(a, s) ==
    GroupKeys(IF a.others.kind = "run" THEN GetItem(a.others.run, s).val
              ELSE a.others.run.data)

\* The results of the calls for one subset that a finished call is made
\* of: the call itself, or one per label of the mapping.
Parts(a, out) ==
    IF out.kind = "map"
    THEN {[s |-> SubStr(lab), r |-> out.map[lab]] : lab \in out.keys}
    ELSE IF out.kind = "ok" THEN {[s |-> Effective(a), r |-> out.one]}
    ELSE {}

KnownMethods == {"intersection", "simple", "bs2000"}

\* Row i holds the least value of column j, and is the first such row.
LeastOfColumn(subKeys, otherKeys, metric, i, j) ==
    \A k \in 1..Len(subKeys) :
        \/ metric[<<subKeys[k], otherKeys[j]>>] > metric[<<subKeys[i], otherKeys[j]>>]
        \/ /\ metric[<<subKeys[k], otherKeys[j]>>] = metric[<<subKeys[i], otherKeys[j]>>]
           /\ k >= i

\* Column j holds the least value of row i, and is the first such column.
LeastOfRow(subKeys, otherKeys, metric, i, j) ==
    \A k \in 1..Len(otherKeys) :
        \/ metric[<<subKeys[i], otherKeys[k]>>] > metric[<<subKeys[i], otherKeys[j]>>]
        \/ /\ metric[<<subKeys[i], otherKeys[k]>>] = metric[<<subKeys[i], otherKeys[j]>>]
           /\ k >= j

MutualPairs(subKeys, otherKeys, metric) ==
    {<<subKeys[i], otherKeys[j]>> :
        <<i, j>> \in {q \in (1..Len(subKeys)) \X (1..Len(otherKeys)) :
                        /\ LeastOfColumn(subKeys, otherKeys, metric, q[1], q[2])
                        /\ LeastOfRow(subKeys, otherKeys, metric, q[1], q[2])}}

\* C1: with method bs2000, a pair (self id of row i, other id of column j)
\* is returned if and only if row i is the minimising row of column j and
\* column j the minimising column of row i (the first one among equal
\* values, as nanargmin takes it); no pair is returned twice.  Hence a self
\* track without mutual partner is in no pair.
C1_MutualNearest ==
    (res.op = "match" /\ res.a.method = "bs2000") =>
        \A part \in Parts(res.a, res.out) :
            /\ Range(part.r.pairs)
                 = MutualPairs(SubKeysOf(part.s), OtherKeysOf(res.a, part.s),
                               res.a.metric)
            /\ Cardinality(Range(part.r.pairs)) = Len(part.r.pairs)

\* A bs2000 call on two self tracks and two other tracks that returns one
\* pair: one self track has a mutual partner, the other has none.
C1_Witness ==
    /\ res.op = "match"
    /\ res.a.method = "bs2000"
    /\ res.out.kind = "ok"
    /\ Len(SubKeysOf(Effective(res.a))) = 2
    /\ Len(OtherKeysOf(res.a, Effective(res.a))) = 2
    /\ Len(res.out.one.pairs) = 1
    /\ \E j \in 0..1 : res.a.metric[<<0, j>>] = res.a.metric[<<1, j>>]

\* len(others) == 0 for an argument that has a length.
OthersEmpty(a) == a.others.kind # "unsized" /\ OthersLen(a.others) = 0

\* C2: a call of match_tracks for one subset (an explicit subset that can
\* be selected, or no subset on an uncategorised run) returns the empty
\* list, and no matrix, when the self subset has no track or others is
\* empty, for each of the three methods.  Spread over the labels, a call
\* with empty others returns the empty list at every label, and every
\* label whose subset is empty holds the empty list.
C2_EmptyGivesEmptyList ==
    (res.op = "match" /\ res.a.method \in KnownMethods) =>
        /\ (/\ ~Dispatched(res.a)
            /\ GetItem(tr, Effective(res.a)).kind = "ok"
            /\ (SubKeysOf(Effective(res.a)) = <<>> \/ OthersEmpty(res.a)))
             => /\ res.out.kind = "ok"
                /\ res.out.one.pairs = <<>>
                /\ ~res.out.one.hasdm
        /\ (Dispatched(res.a) /\ OthersEmpty(res.a))
             => /\ res.out.kind = "map"
                /\ \A lab \in res.out.keys : res.out.map[lab] = Pairs(<<>>)
        /\ res.out.kind = "map"
             => \A lab \in res.out.keys :
                   SubKeysOf(SubStr(lab)) = <<>> => res.out.map[lab] = Pairs(<<>>)

\* A call with a list of two tracks on a label that selects no track of a
\* run that has tracks.
C2_Witness ==
    /\ res.op = "match"
    /\ res.a.method \in KnownMethods
    /\ res.a.subset = SubStr(Lab("A"))
    /\ TrackRunLen(tr) > 0
    /\ GetItem(tr, res.a.subset).kind = "ok"
    /\ SubKeysOf(res.a.subset) = <<>>
    /\ res.a.others.kind = "list"
    /\ OthersLen(res.a.others) = 2
    /\ res.out.kind = "ok"
    /\ res.out.one.pairs = <<>>

\* C3 as stated, for the calls whose subset can be selected: a method that
\* is not one of the three makes the call fail with ArgumentError.
C3_UnknownMethodFails ==
    (/\ res.op = "match"
     /\ res.a.method \notin KnownMethods
     /\ ~Dispatched(res.a)
     /\ GetItem(tr, Effective(res.a)).kind = "ok")
        => res.out.kind = "error" /\ res.out.err = "ArgumentError"

\* C4 as stated, for the calls whose subset can be selected: an others
\* argument that is neither a list nor a TrackRun makes the call fail with
\* ArgumentError.
C4_WrongOthersFails ==
    (/\ res.op = "match"
     /\ res.a.others.kind \notin {"list", "run"}
     /\ ~Dispatched(res.a)
     /\ GetItem(tr, Effective(res.a)).kind = "ok")
        => res.out.kind = "error" /\ res.out.err = "ArgumentError"

KnownBys == {"point", "track", "genesis", "lysis"}

KnownDensMethods == {"radius", "cell"}

\* The boundary arrays of the grid of a density call.
LonBounds(a) == GridBounds(a.lon1d, a.grid_centres)

LatBounds(a) == GridBounds(a.lat1d, a.grid_centres)

StrictlyAscending(b) == \A k \in 1..(Len(b) - 1) : b[k] < b[k + 1]

\* C5 as stated, for the calls whose subset can be selected and whose grid
\* ascends strictly: a by that is not point, track, genesis or lysis, or a
\* method that is not radius or cell, makes density fail with ArgumentError
\* and with no other error.
C5_UnknownValueFails ==
    (/\ res.op = "density"
     /\ (res.a.by \notin KnownBys \/ res.a.method \notin KnownDensMethods)
     /\ ~Dispatched(res.a)
     /\ GetItem(tr, Effective(res.a)).kind = "ok"
     /\ StrictlyAscending(LonBounds(res.a))
     /\ StrictlyAscending(LatBounds(res.a)))
        => res.out.kind = "error" /\ res.out.err = "ArgumentError"

\* The body of density runs for a subset: the subset of the call can be
\* selected, or the call is spread over at least one label.
SubsetProcessed(a) ==
    \/ ~Dispatched(a) /\ GetItem(tr, Effective(a)).kind = "ok"
    \/ Dispatched(a) /\ CatLabels(tr) # <<>>

\* C6: a density call with method cell on a grid whose longitude or latitude
\* boundaries have a decreasing step, whose body runs for a subset, raises
\* GridError; no point was selected or aggregated before the raise, and the
\* collection is as it was before the call.
C6_GridErrorBeforePoints ==
    [][(/\ res.op = "none"
        /\ res'.op = "density"
        /\ res'.a.method = "cell"
        /\ \/ HasDecreasingStep(LonBounds(res'.a))
           \/ HasDecreasingStep(LatBounds(res'.a))
        /\ SubsetProcessed(res'.a))
          => /\ res'.out.kind = "error"
             /\ res'.out.err = "GridError"
             /\ "points" \notin Range(res'.out.one.steps)
             /\ "aggregate" \notin Range(res'.out.one.steps)
             /\ tr' = tr]_vars

\* A cell call on a run with tracks whose longitude boundaries, computed
\* from the centres, step down while the latitudes ascend.
C6_Witness ==
    /\ res.op = "density"
    /\ res.a.method = "cell"
    /\ res.a.grid_centres
    /\ HasDecreasingStep(LonBounds(res.a))
    /\ StrictlyAscending(LatBounds(res.a))
    /\ TrackRunLen(tr) > 0
    /\ res.a.by \in KnownBys
    /\ res.out.err = "GridError"

\* C7 as stated, for the calls whose subset can be selected: method cell
\* rejects with GridError every grid whose boundaries do not ascend
\* strictly in both dimensions.
C7_NonStrictRejected ==
    (/\ res.op = "density"
     /\ res.a.method = "cell"
     /\ ~Dispatched(res.a)
     /\ GetItem(tr, Effective(res.a)).kind = "ok"
     /\ \/ ~StrictlyAscending(LonBounds(res.a))
        \/ ~StrictlyAscending(LatBounds(res.a)))
        => res.out.kind = "error" /\ res.out.err = "GridError"

WithSubset(a, lab) == [a EXCEPT !.subset = SubStr(lab)]

\* C8: match_tracks and density with no subset on a categorised run return
\* a mapping whose keys are the category labels and whose value at a label
\* is what the same call with that label as subset returns, itself no
\* mapping; when one of these calls raises, the call raises.  On an
\* uncategorised run the call returns what the call with subset "all"
\* returns, which is no mapping.
C8_Dispatch ==
    /\ (res.op = "match" /\ Dispatched(res.a)) =>
          IF \E lab \in Range(CatLabels(tr)) :
                MatchTracks(tr, WithSubset(res.a, lab)).kind = "error"
          THEN res.out.kind = "error"
          ELSE /\ res.out.kind = "map"
               /\ res.out.keys = Range(CatLabels(tr))
               /\ \A lab \in res.out.keys :
                     /\ MatchTracks(tr, WithSubset(res.a, lab)).kind = "ok"
                     /\ res.out.map[lab] = MatchTracks(tr, WithSubset(res.a, lab)).one
    /\ (res.op = "match" /\ res.a.subset.kind = "none" /\ ~tr.is_categorised) =>
          /\ res.out.kind # "map"
          /\ res.out = MatchTracks(tr, WithSubset(res.a, AllStr))
    /\ (res.op = "density" /\ Dispatched(res.a)) =>
          IF \E lab \in Range(CatLabels(tr)) :
                Density(tr, WithSubset(res.a, lab)).kind = "error"
          THEN res.out.kind = "error"
          ELSE /\ res.out.kind = "map"
               /\ res.out.keys = Range(CatLabels(tr))
               /\ \A lab \in res.out.keys :
                     /\ Density(tr, WithSubset(res.a, lab)).kind = "ok"
                     /\ res.out.map[lab] = Density(tr, WithSubset(res.a, lab)).one
    /\ (res.op = "density" /\ res.a.subset.kind = "none" /\ ~tr.is_categorised) =>
          /\ res.out.kind # "map"
          /\ res.out = Density(tr, WithSubset(res.a, AllStr))

\* A bs2000 call with no subset on a run of two labels that returns
\* different pair lists at the two labels.
C8_Witness ==
    /\ res.op = "match"
    /\ res.a.method = "bs2000"
    /\ res.a.subset.kind = "none"
    /\ res.out.kind = "map"
    /\ res.out.keys = {Lab("A"), Lab("B")}
    /\ res.out.map[Lab("A")].pairs # <<>>
    /\ res.out.map[Lab("B")].pairs # <<>>
    /\ res.out.map[Lab("A")] # res.out.map[Lab("B")]

\* A record without its track id.
Strip(data) ==
    [i \in 1..Len(data) |->
        [row |-> data[i].row, time |-> data[i].time, x |-> data[i].x,
         orig |-> data[i].orig]]

\* C9: after an extend or a + that did not raise, the track ids of the
\* collection are 0, 1, ..., k - 1 in order of appearance, the records of
\* one id are adjacent, and the records are those of self followed by those
\* of other with nothing but the track id changed, so the records of every
\* original track keep their order.
C9_ContiguousIds ==
    (last.op \in {"extend", "add"} /\ last.err = "none") =>
        /\ Unique(Level0(tr.data))
             = [i \in 1..Cardinality(Range(Level0(tr.data))) |-> i - 1]
        /\ \A p, q \in 1..Len(tr.data) :
              p < q => tr.data[p].tid <= tr.data[q].tid
        /\ Strip(tr.data) = Strip(last.self.data) \o Strip(last.other.data)

\* An extend of a run whose first track id is not 0, a time slice having
\* dropped its first track, by a run that has tracks.
C9_Witness ==
    /\ last.op = "extend"
    /\ last.err = "none"
    /\ last.self.data # <<>>
    /\ last.self.data[1].tid # 0
    /\ last.other.data # <<>>
    /\ TrackRunLen(tr) >= 2

\* The ids whose category row holds a true flag at every listed label.
Flagged(cats, labs) ==
    {row.tid : row \in {r \in Range(cats.rows) :
                           \A k \in 1..Len(labs) : r.flags[labs[k]]}}

LabelsOf(subset) == IF subset.kind = "str" THEN <<subset.s>> ELSE subset.l

\* C10 as stated: on a categorised collection a selection by known labels
\* returns exactly the records of the tracks flagged at every listed label,
\* and a selection by None or "all" returns all records, in every state
\* classify, extend, + and time_slice lead to.
C10_SelectionIsIntersection ==
    (sel.done /\ tr.is_categorised) =>
        IF sel.subset.kind = "none" \/ LabelsOf(sel.subset) = <<AllStr>>
        THEN sel.out = Ok(tr.data)
        ELSE Range(LabelsOf(sel.subset)) \subseteq Range(CatLabels(tr))
               => sel.out = Ok(SelectSeq(tr.data,
                        LAMBDA r : r.tid \in Flagged(tr.cats, LabelsOf(sel.subset))))

\* The exceptions a caller handling selection errors catches: SelectError
\* and, for a run without categories, NotCategorisedError.
SelectionErrors == {"SelectError", "NotCategorisedError"}

\* A selection by a label, or a list holding a label, that is no category
\* label of the run.
UnknownSelected ==
    /\ sel.done
    /\ sel.subset.kind # "none"
    /\ LabelsOf(sel.subset) # <<AllStr>>
    /\ ~(Range(LabelsOf(sel.subset)) \subseteq Range(CatLabels(tr)))

\* C11 as stated: a selection by a label that is not among the category
\* labels of the collection fails with a selection error and returns no
\* data, whether the collection is empty or not, categorised or not.
C11_UnknownLabelFails ==
    UnknownSelected =>
        sel.out.kind = "error" /\ sel.out.err \in SelectionErrors

\* ------------------------------------- the calls on tracks with positions
\* Bounds of the tracks methods "simple" and "intersection" are called on:
\* the records of a track and the distance between two positions.
MaxPosRecs == 3

MaxPos == 2

\* A track: records every step hours from start on, at the positions xs.
PosTrack(slot, tid, t) ==
    [r \in 1..Len(t.xs) |->
        [tid |-> tid, row |-> r - 1, time |-> t.start + t.step * (r - 1),
         x |-> t.xs[r], orig |-> 10 * slot + tid + 1]]

\* A run, or the frame of a list of tracks, of the tracks ts, under the ids
\* 0, 1, ...
PosRun(slot, ts) ==
    [EmptyRun EXCEPT
        !.data = Flatten([k \in 1..Len(ts) |-> PosTrack(slot, k - 1, ts[k])]),
        !.tstep_h = IF ts = <<>> THEN NoStep ELSE ts[1].step]

PosSeqs(lens) == UNION {[1..n -> {0, MaxPos}] : n \in lens}

\* The tracks of the self run: hourly, of two records or more.
SelfTracks ==
    [start : 0..1, step : {1}, xs : PosSeqs(2..MaxPosRecs)]

\* The second track of a self run: of full length, from time 0.
SecondTracks ==
    [start : {0}, step : {1}, xs : PosSeqs({MaxPosRecs})]

PosRuns ==
    {PosRun(1, <<t>>) : t \in SelfTracks}
      \cup {PosRun(1, <<t, u>>) : t \in SelfTracks, u \in SecondTracks}

\* The other tracks of method "simple": hourly or two-hourly.
SimpleOtherTracks ==
    [start : 0..1, step : 1..2, xs : PosSeqs(2..MaxPosRecs)]

SimpleOthers ==
    {Others("list", PosRun(2, <<t>>)) : t \in SimpleOtherTracks}
      \cup {Others("list", PosRun(2, <<t, u>>)) :
               t \in [start : {0}, step : {1}, xs : {<<0, 0>>}],
               u \in [start : {0}, step : {1}, xs : PosSeqs({MaxPosRecs})]}

\* The other tracks of method "intersection": one or two hourly tracks of
\* full length.
IntersectionOthers ==
    {Others("list", PosRun(2, <<t>>)) :
        t \in [start : 0..1, step : {1}, xs : PosSeqs({MaxPosRecs})]}
      \cup {Others("list", PosRun(2, <<t, u>>)) :
               t, u \in [start : 0..1, step : {1}, xs : PosSeqs({MaxPosRecs})]}

TwoThirds == [n |-> 2, d |-> 3]

TimeFracs == {Half, TwoThirds}

\* thresh_dist below and above the distance of two positions.
ThreshDists == {MaxPos - 1, MaxPos + 1}

PosArg(others, method, interpolate_to, thresh_dist, tf) ==
    [others |-> others, subset |-> SubNone, method |-> method,
     interpolate_to |-> interpolate_to, thresh_dist |-> thresh_dist,
     tf |-> tf, ret |-> FALSE, metric |-> ZeroMetric]

InitPos ==
    /\ tr \in PosRuns
    /\ last = Idle
    /\ sel = NoSel
    /\ nops = 0
    /\ res = NoRes

\* tr.match_tracks(others, method="simple", interpolate_to, thresh_dist,
\* time_frac)
DoMatchSimple ==
    /\ res.op = "none"
    /\ \E o \in SimpleOthers, it \in {"other", "self"},
          th \in ThreshDists, tf \in TimeFracs :
          res' = [op |-> "match", a |-> PosArg(o, "simple", it, th, tf),
                  out |-> MatchTracks(tr, PosArg(o, "simple", it, th, tf))]
    /\ UNCHANGED <<tr, last, sel, nops>>

\* tr.match_tracks(others, method="intersection", thresh_dist, time_frac)
DoMatchIntersection ==
    /\ res.op = "none"
    /\ \E o \in IntersectionOthers, th \in ThreshDists :
          res' = [op |-> "match", a |-> PosArg(o, "intersection", "other", th, Half),
                  out |-> MatchTracks(tr, PosArg(o, "intersection", "other", th, Half))]
    /\ UNCHANGED <<tr, last, sel, nops>>

NextPos ==
    \/ DoMatchSimple
    \/ DoMatchIntersection

SpecPos == InitPos /\ [][NextPos]_vars

\* A finished call of method "simple" on a list of tracks.
SimpleCalled ==
    /\ res.op = "match"
    /\ res.a.method = "simple"
    /\ res.out.kind = "ok"

\* The count of self track id against other track o in the call a.
CountOf(a, id, o) ==
    WithinCount(Donor(Group(tr.data, id), Group(a.others.run.data, o),
                      a.interpolate_to),
                Target(Group(tr.data, id), Group(a.others.run.data, o),
                       a.interpolate_to),
                a.thresh_dist)

\* The candidates of other track o in the call a.
CandidatesOf(a, o) ==
    Candidates(tr.data, Group(a.others.run.data, o), a.interpolate_to,
               a.thresh_dist, a.tf)

\* C12 as stated: in method "simple", with interpolate_to "other" and with
\* "self", every candidate of an other track has a count that exceeds
\* time_frac times the number of records of that other track.
C12_ThresholdFromOther ==
    SimpleCalled =>
        \A o \in Range(GroupKeys(res.a.others.run.data)) :
            \A id \in Range(CandidatesOf(res.a, o)) :
                CountOf(res.a, id, o) * res.a.tf.d
                    > res.a.tf.n * Len(Group(res.a.others.run.data, o))

\* The place of self track id in the iteration over the self subset.
PlaceOf(id) ==
    CHOOSE k \in 1..Len(GroupKeys(tr.data)) : GroupKeys(tr.data)[k] = id

\* The pairs a finished call returned for other track o.
PairsFor(o) ==
    SelectSeq(res.out.one.pairs, LAMBDA pr : pr[2] = o)

\* C13: in method "simple" every other track is in at most one returned
\* pair; an other track without candidate is in none; an other track with
\* candidates is paired with a candidate of the greatest count, and no
\* candidate enumerated after it reaches that count.
C13_FinalCandidate ==
    SimpleCalled =>
        \A o \in Range(GroupKeys(res.a.others.run.data)) :
            /\ Len(PairsFor(o)) <= 1
            /\ Len(PairsFor(o)) = 1 <=> CandidatesOf(res.a, o) # <<>>
            /\ \A k \in 1..Len(PairsFor(o)) :
                  /\ PairsFor(o)[k][1] \in Range(CandidatesOf(res.a, o))
                  /\ \A id \in Range(CandidatesOf(res.a, o)) :
                        /\ CountOf(res.a, id, o)
                              <= CountOf(res.a, PairsFor(o)[k][1], o)
                        /\ PlaceOf(id) > PlaceOf(PairsFor(o)[k][1])
                              => CountOf(res.a, id, o)
                                    < CountOf(res.a, PairsFor(o)[k][1], o)

\* Two candidates of one other track reach the greatest count and the
\* later one is paired; another other track of the call has no candidate.
C13_Witness ==
    /\ SimpleCalled
    /\ \E o \in Range(GroupKeys(res.a.others.run.data)) :
          /\ Len(CandidatesOf(res.a, o)) = 2
          /\ CountOf(res.a, CandidatesOf(res.a, o)[1], o)
                = CountOf(res.a, CandidatesOf(res.a, o)[2], o)
          /\ PairsFor(o) = <<<<CandidatesOf(res.a, o)[2], o>>>>
    /\ \E o \in Range(GroupKeys(res.a.others.run.data)) :
          /\ CandidatesOf(res.a, o) = <<>>
          /\ PairsFor(o) = <<>>

\* A finished call of method "intersection" on a list of tracks.
IntersectionCalled ==
    /\ res.op = "match"
    /\ res.a.method = "intersection"
    /\ res.out.kind = "ok"

TimesOf(df) == {df[k].time : k \in 1..Len(df)}

\* The position of a track at one of its times.
XAt(df, t) == (CHOOSE r \in Range(df) : r.time = t).x

\* The timestamps self track ot and other track oo have in common, and
\* those at which the two are closer than thresh_dist.
CommonTimes(ot, oo) == TimesOf(ot) \cap TimesOf(oo)

CloseTimes(ot, oo, thresh_dist) ==
    {t \in CommonTimes(ot, oo) : Abs(XAt(ot, t) - XAt(oo, t)) < thresh_dist}

\* The sampling interval of the common timestamps: the step between the
\* last two of them.
LastStep(T) ==
    LET hi == CHOOSE t \in T : \A u \in T : u <= t
    IN  hi - (CHOOSE t \in T \ {hi} : \A u \in T \ {hi} : u <= t)

\* Other track oo qualifies for self track ot: both products exceed
\* time_frac times the lifetime of oo.  Without two common timestamps
\* there is no interval and no product.
Qualifies(ot, oo, thresh_dist, tf) ==
    /\ Cardinality(CommonTimes(ot, oo)) >= 2
    /\ Cardinality(CommonTimes(ot, oo)) * LastStep(CommonTimes(ot, oo)) * tf.d
          > tf.n * (oo[Len(oo)].time - oo[1].time)
    /\ Cardinality(CloseTimes(ot, oo, thresh_dist))
            * LastStep(CommonTimes(ot, oo)) * tf.d
          > tf.n * (oo[Len(oo)].time - oo[1].time)

\* The other tracks that qualify for self track id in the call a.
QualifyingFor(a, id) ==
    {o \in Range(GroupKeys(a.others.run.data)) :
        Qualifies(Group(tr.data, id), Group(a.others.run.data, o),
                  a.thresh_dist, a.tf)}

\* The pairs a finished call returned for self track id.
PairsOf(id) ==
    SelectSeq(res.out.one.pairs, LAMBDA pr : pr[1] = id)

\* C14: in method "intersection" every self track is in at most one
\* returned pair; its partner is the qualifying other track of the least
\* id, the first in iteration order; a self track no other track qualifies
\* for is in no pair.
C14_FirstQualifying ==
    IntersectionCalled =>
        \A id \in Range(GroupKeys(tr.data)) :
            IF QualifyingFor(res.a, id) = {} THEN PairsOf(id) = <<>>
            ELSE /\ Len(PairsOf(id)) = 1
                 /\ PairsOf(id)[1][2] \in QualifyingFor(res.a, id)
                 /\ \A o \in QualifyingFor(res.a, id) : PairsOf(id)[1][2] <= o

\* Two other tracks qualify for one self track and the first is reported.
C14_Witness ==
    /\ IntersectionCalled
    /\ \E id \in Range(GroupKeys(tr.data)) :
          /\ QualifyingFor(res.a, id) = {0, 1}
          /\ PairsOf(id) = <<<<id, 0>>>>
    /\ \E id \in Range(GroupKeys(tr.data)) : QualifyingFor(res.a, id) = {1}

\* A call of bs2000 that asks for the distance matrix, names its subset,
\* passes a list or a collection, and returns.
MatrixAsked ==
    /\ res.op = "match"
    /\ res.a.method = "bs2000"
    /\ res.a.ret
    /\ res.a.subset.kind # "none"
    /\ res.a.others.kind \in {"list", "run"}
    /\ res.out.kind = "ok"

\* C15 as stated: a bs2000 call with return_dist_matrix=True and an
\* explicit subset returns the pairs together with the distance matrix, of
\* one row per track of the self subset and one column per track of the
\* whole other collection.
C15_MatrixShape ==
    MatrixAsked =>
        /\ res.out.one.hasdm
        /\ Len(res.out.one.dm) = Len(SubKeysOf(res.a.subset))
        /\ \A i \in 1..Len(res.out.one.dm) :
              Len(res.out.one.dm[i]) = OthersLen(res.a.others)

\* The last operation was a classify that returned.
Classified16 ==
    /\ last.op = "classify"
    /\ last.err = "none"

\* The flag of track id under label c in a category frame: true when a row
\* of the track holds it.
FlagOf(cats, id, c) ==
    \E row \in Range(cats.rows) : row.tid = id /\ row.flags[c]

\* C16: after classify(conditions, inclusive=True) a track's flag for the
\* label of a condition holds only if its flag for the label of the
\* condition before holds; and a flag that held before a classify that
\* keeps the categories (clear=False) holds after it, on every row of the
\* track.
C16_InclusiveChain ==
    Classified16 =>
        /\ last.args.inclusive =>
              \A row \in Range(tr.cats.rows) :
                 \A i \in 1..(Len(last.args.labels) - 1) :
                    row.flags[NewLabel(last.args.labels, i + 1, TRUE)]
                       => row.flags[NewLabel(last.args.labels, i, TRUE)]
        /\ ~last.args.clear =>
              \A c \in Range(CatLabels(last.self)) :
                 \A id \in {r.tid : r \in Range(last.self.cats.rows)} :
                    FlagOf(last.self.cats, id, c) =>
                       \A row \in Range(tr.cats.rows) :
                          row.tid = id => row.flags[c]

\* An inclusive classify by two conditions on two tracks: one track holds
\* both labels, the other the earlier label alone; a flag set before the
\* call is still set.
C16_Witness ==
    /\ Classified16
    /\ last.args.inclusive
    /\ ~last.args.clear
    /\ Len(last.args.labels) = 2
    /\ \E row \in Range(tr.cats.rows) :
          /\ row.flags[NewLabel(last.args.labels, 1, TRUE)]
          /\ row.flags[NewLabel(last.args.labels, 2, TRUE)]
    /\ \E row \in Range(tr.cats.rows) :
          /\ row.flags[NewLabel(last.args.labels, 1, TRUE)]
          /\ ~row.flags[NewLabel(last.args.labels, 2, TRUE)]
    /\ \E c \in Range(CatLabels(last.self)), row \in Range(tr.cats.rows) :
          FlagOf(last.self.cats, row.tid, c) /\ row.flags[c]

\* The records of the target df2 whose time lies within the time span of
\* the donor df1 and at which the donor, interpolated to that time, is
\* closer than thresh_dist to the target.
AlignedWithin(df1, df2, thresh_dist) ==
    {k \in 1..Len(df2) :
        /\ SortByTime(df1)[1].time <= df2[k].time
        /\ df2[k].time <= SortByTime(df1)[Len(df1)].time
        /\ Abs(InterpAt(SortByTime(df1), df2[k].time).n
                 - df2[k].x * InterpAt(SortByTime(df1), df2[k].time).d)
              < thresh_dist * InterpAt(SortByTime(df1), df2[k].time).d}

\* C17 as stated: in method "simple" the count of a self track against an
\* other track is the number of target records inside the donor's time
\* span at which the interpolated donor position is within thresh_dist of
\* the target position of the same timestamp; samples outside the span
\* are not counted.
C17_AlignedSamples ==
    SimpleCalled =>
        \A o \in Range(GroupKeys(res.a.others.run.data)) :
            \A id \in Range(GroupKeys(tr.data)) :
                Overlap(Group(tr.data, id), Group(res.a.others.run.data, o)) =>
                    CountOf(res.a, id, o)
                        = Cardinality(AlignedWithin(
                              Donor(Group(tr.data, id),
                                    Group(res.a.others.run.data, o),
                                    res.a.interpolate_to),
                              Target(Group(tr.data, id),
                                     Group(res.a.others.run.data, o),
                                     res.a.interpolate_to),
                              res.a.thresh_dist))

\* A record falls on day d of month m.
OnDay(r, ex) == MonthOf(r.time) = ex.m /\ DayOf(r.time) = ex.d

\* One point per track of sub, in track order: the record at place
\* first (1) or last (0 from the end) of every track whose record at that
\* place does not fall on the excluded day.
EndPoints(sub, atFirst, ex) ==
    Flatten([k \in 1..Len(GroupKeys(sub)) |->
        LET g == Group(sub, GroupKeys(sub)[k])
            p == IF atFirst THEN g[1] ELSE g[Len(g)]
        IN  IF OnDay(p, ex) THEN <<>> ELSE <<p>>])

\* C18 as stated: the points of by="genesis" (by="lysis") are the first
\* (last) record of every track of the subset, except the tracks whose
\* first (last) record falls on the excluded day of the excluded month; no
\* other track is left out and no other record taken.
C18_OnePointPerTrack ==
    (res.op = "density" /\ res.a.by \in {"genesis", "lysis"}) =>
        \A part \in Parts(res.a, res.out) :
            part.r.kind = "ok" =>
                part.r.points
                    = EndPoints(GetItem(tr, part.s).val, res.a.by = "genesis",
                                IF res.a.by = "genesis" THEN res.a.exclude_first
                                ELSE res.a.exclude_last)

\* A call of calc_all_dens none of whose density calls raises.
CalcCalled ==
    /\ res.op = "calc_all_dens"
    /\ \A c \in Range(DensCalls(res.a.subsets)) :
          Density(tr, [res.a.kw EXCEPT !.by = c.by,
                                       !.subset = SubStr(c.subset)]).kind = "ok"

\* C19 as stated: calc_all_dens returns an array with one entry of the
\* subset dimension per subset passed in subsets, labelled with that
\* subset and holding its fields, and with the dens_type dimension
\* (point, track, genesis, lysis), for every list of subsets.
C19_SubsetsProcessed ==
    CalcCalled =>
        /\ res.out.kind = "ok"
        /\ res.out.subset = res.a.subsets
        /\ res.out.dens_type = <<"point", "track", "genesis", "lysis">>
        /\ Len(res.out.cells) = Len(res.a.subsets)
        /\ \A k \in 1..Len(res.out.cells) :
              \A j \in 1..4 :
                 /\ res.out.cells[k][j].subset = SubStr(res.a.subsets[k])
                 /\ res.out.cells[k][j].name
                       = <<res.out.dens_type[j], "_density">>

\* C20 as stated: after a + b or a.extend(b) that did not raise, the
\* collection holds len(a) + len(b) tracks, and the records of two
\* distinct original tracks never carry one track id.
C20_LengthsAdd ==
    (last.op \in {"extend", "add"} /\ last.err = "none") =>
        /\ TrackRunLen(tr) = TrackRunLen(last.self) + TrackRunLen(last.other)
        /\ \A p, q \in 1..Len(tr.data) :
              tr.data[p].orig # tr.data[q].orig
                 => tr.data[p].tid # tr.data[q].tid

\* The category table holds one row for every track id of the data and no
\* other row.
OneRowPerTrack(run) ==
    /\ \A j, k \in 1..Len(run.cats.rows) :
          run.cats.rows[j].tid = run.cats.rows[k].tid => j = k
    /\ {row.tid : row \in Range(run.cats.rows)} = Range(Level0(run.data))

\* The operand record p of the data of an extend or + came from, and its
\* place there: the records of self come first.
OperandOf(p) ==
    IF p <= Len(last.self.data) THEN last.self ELSE last.other

PlaceIn(p) ==
    IF p <= Len(last.self.data) THEN p ELSE p - Len(last.self.data)

\* C21 as stated: on a categorised collection, after classify, extend, +
\* and time_slice the category table has exactly one row per track id of
\* the data; and after an extend, + or time_slice every track has, under
\* its new id, the flags it had under its old id before the operation.
C21_CategoriesFollowTracks ==
    (tr.is_categorised /\ last.err = "none") =>
        /\ OneRowPerTrack(tr)
        /\ last.op \in {"extend", "add"} =>
              \A p \in 1..Len(tr.data) :
                 \A c \in Range(CatLabels(OperandOf(p))) :
                    FlagOf(tr.cats, tr.data[p].tid, c)
                       = FlagOf(OperandOf(p).cats,
                                OperandOf(p).data[PlaceIn(p)].tid, c)
        /\ last.op = "time_slice" =>
              \A r \in Range(tr.data) :
                 \A c \in Range(CatLabels(last.self)) :
                    \E q \in Range(last.self.data) :
                       /\ q.orig = r.orig /\ q.row = r.row /\ q.time = r.time
                       /\ FlagOf(tr.cats, r.tid, c)
                             = FlagOf(last.self.cats, q.tid, c)

====
